---- MODULE Spec2Model ----
(***************************************************************************)
(* Model of backend/ml_service.py: the EcosystemPredictor (feature         *)
(* extraction, collapse-classifier training and inference, the heuristic   *)
(* estimator, the population forecaster, model persistence and reload).    *)
(*                                                                         *)
(* Conventions                                                             *)
(*  - a snapshot is a Python dict, modelled as a function whose DOMAIN is  *)
(*    the set of keys it holds; a missing key is a key not in the DOMAIN;  *)
(*  - population counts are integers;                                      *)
(*  - risk, confidence, the weights and importances are Python floats,     *)
(*    computed as binary64 computes them (see the section on floats);      *)
(*  - a feature value or a population forecast is an exact fraction        *)
(*    <<num, den>>, den > 0;                                               *)
(*  - a standard deviation is carried as its square, <<num, den>>;         *)
(*  - a call's outcome is a record whose field raised says whether an      *)
(*    exception escaped the call.                                          *)
(***************************************************************************)
EXTENDS Integers, Sequences, FiniteSets, TLC

VARIABLES
  models,     \* self.models: dict, key "collapse" -> classifier
  scalers,    \* self.scalers: dict, key "collapse" -> scaler
  is_trained, \* self.is_trained
  disk,       \* the two files of self.model_dir
  runs,       \* number of fits performed so far (names each fit's artifacts)
  trainers,   \* the threads running train_collapse_predictor
  readers,    \* the threads running predict_collapse_risk
  pin,        \* input of a pure-function run
  pout        \* output of a pure-function run

vars == <<models, scalers, is_trained, disk, runs, trainers, readers, pin, pout>>
svars == <<models, scalers, is_trained, disk, runs, trainers, readers>>

----------------------------------------------------------------------------
(* Program constants *)

Lookback == 5
MinData == 10
MinExamples == 20
MinForecast == 5
MinTrainRequest == 50
TrendWindow == 10
NFeatures == 19

(* Bounds of the model *)

MaxHeurLen == 3
MaxFeatLen == 11
MaxFcstLen == 11
MaxSteps == 2
MaxHist == 25
MaxRuns == 2
MaxZ == 3

----------------------------------------------------------------------------
(* Helpers for Python values *)

Max2(a, b) == IF a >= b THEN a ELSE b
Min2(a, b) == IF a <= b THEN a ELSE b

RECURSIVE SumSeq(_)
SumSeq(xs) == IF xs = <<>> THEN 0 ELSE xs[1] + SumSeq(Tail(xs))

RECURSIVE MinSeq(_)
MinSeq(xs) == IF Len(xs) = 1 THEN xs[1] ELSE Min2(xs[1], MinSeq(Tail(xs)))

RECURSIVE MaxSeq(_)
MaxSeq(xs) == IF Len(xs) = 1 THEN xs[1] ELSE Max2(xs[1], MaxSeq(Tail(xs)))

\* xs[k] with Python's 0-based / negative index k
PyAt(xs, k) == IF k >= 0 THEN xs[k + 1] ELSE xs[Len(xs) + k + 1]

\* xs[-k:]
PyTail(xs, k) == IF Len(xs) <= k THEN xs ELSE SubSeq(xs, Len(xs) - k + 1, Len(xs))

\* d has key k
HasKey(d, k) == k \in DOMAIN d

PopKeys == {"plants", "herbivores", "carnivores"}

Snap(p, h, c, s) == [plants |-> p, herbivores |-> h, carnivores |-> c, step |-> s]

EmptyDict == [k \in {} |-> 0]

----------------------------------------------------------------------------
(* Python floats (IEEE 754 binary64, round to nearest, ties to even), for   *)
(* the non-negative values the program computes with.  A float is           *)
(* [m |-> bits, e |-> k]: bits is the 53-bit significand, most significant  *)
(* bit first, and the value is (bits read as a binary number) * 2^k; zero   *)
(* is FZero.  A natural number of any size is a sequence of bits, most      *)
(* significant first; sums are carried 13 bits at a time.                   *)

Zeros(k) == [j \in 1..k |-> 0]

RECURSIVE StripZeros(_)
StripZeros(b) == IF b = <<>> \/ b[1] = 1 THEN b ELSE StripZeros(Tail(b))

RECURSIVE NatBits(_)
NatBits(n) == IF n = 0 THEN <<>> ELSE Append(NatBits(n \div 2), n % 2)

\* bit i of b counted from the least significant one (i = 0)
BitAt(b, i) == IF i < Len(b) THEN b[Len(b) - i] ELSE 0

\* the 13 bits of v < 2^13
Chunk13(v) == [j \in 1..13 |-> (v \div 2^(13 - j)) % 2]

RECURSIVE CarryFrom(_, _, _)
CarryFrom(chunks, i, carry) ==
  IF i > Len(chunks) THEN Chunk13(carry)
  ELSE LET v == chunks[i] + carry
       IN CarryFrom(chunks, i + 1, v \div 8192) \o Chunk13(v % 8192)

\* the number with cols[k] units of weight 2^(k-1), for every k
ColumnsToBits(cols) ==
  LET n == Len(cols)
      chunk(c) == SumSeq([j \in 1..13 |->
                    IF 13 * (c - 1) + j <= n THEN cols[13 * (c - 1) + j] * 2^(j - 1)
                    ELSE 0])
  IN CarryFrom([c \in 1..((n + 12) \div 13) |-> chunk(c)], 1, 0)

BitsAdd(a, b) ==
  ColumnsToBits([k \in 1..Max2(Len(a), Len(b)) |-> BitAt(a, k - 1) + BitAt(b, k - 1)])

BitsMul(a, b) ==
  ColumnsToBits([k \in 1..(Len(a) + Len(b)) |->
    Cardinality({i \in 0..(k - 1) : BitAt(a, i) = 1 /\ BitAt(b, k - 1 - i) = 1})])

RECURSIVE BitsPow(_, _)
BitsPow(b, n) == IF n = 0 THEN <<1>> ELSE BitsMul(BitsPow(b, n - 1), b)

FZero == [m |-> Zeros(53), e |-> 0]

\* the float nearest to bits * 2^e, ties to even
Float(bits, e) ==
  LET b == StripZeros(bits)
      n == Len(b)
  IN IF n = 0 THEN FZero
     ELSE IF n <= 53 THEN [m |-> b \o Zeros(53 - n), e |-> e - (53 - n)]
     ELSE LET top == SubSeq(b, 1, 53)
              up == b[54] = 1 /\ (top[53] = 1 \/ \E j \in 55..n : b[j] = 1)
              r == IF up THEN StripZeros(BitsAdd(top, <<1>>)) ELSE top
          IN [m |-> SubSeq(r, 1, 53), e |-> e + (n - 53) + (Len(r) - 53)]

\* x + y
FAdd(x, y) ==
  IF x = FZero THEN y
  ELSE IF y = FZero THEN x
  ELSE LET e == Min2(x.e, y.e)
       IN Float(BitsAdd(x.m \o Zeros(x.e - e), y.m \o Zeros(y.e - e)), e)

\* x * y
FMul(x, y) ==
  IF x = FZero \/ y = FZero THEN FZero
  ELSE Float(BitsMul(x.m, y.m), x.e + y.e)

\* x ** n for an int n >= 0: the float nearest to the exact power
FPow(x, n) ==
  IF n = 0 THEN Float(<<1>>, 0)
  ELSE IF x = FZero THEN FZero
  ELSE Float(BitsPow(x.m, n), x.e * n)

\* x < y
FLess(x, y) ==
  IF y = FZero THEN FALSE
  ELSE IF x = FZero THEN TRUE
  ELSE \/ x.e < y.e
       \/ /\ x.e = y.e
          /\ \E j \in 1..53 : x.m[j] < y.m[j] /\ \A i \in 1..(j - 1) : x.m[i] = y.m[i]

\* min(x, y) and max(x, y) as Python evaluates them: the first argument
\* unless the second is strictly smaller (larger)
FMin(x, y) == IF FLess(y, x) THEN y ELSE x
FMax(x, y) == IF FLess(x, y) THEN y ELSE x

\* the next float above x
Succ(x) == Float(BitsAdd(x.m, <<1>>), x.e)

\* x and y are the same float or neighbouring floats
Near(x, y) == x = y \/ Succ(x) = y \/ Succ(y) = x

\* the first 13 * k bits after the binary point of r / d, for 0 <= r < d
RECURSIVE FracBits(_, _, _)
FracBits(r, d, k) ==
  IF k = 0 THEN <<>>
  ELSE Chunk13((r * 8192) \div d) \o FracBits((r * 8192) % d, d, k - 1)

\* what is left of r / d beyond those bits, as a numerator over d
RECURSIVE FracRem(_, _, _)
FracRem(r, d, k) == IF k = 0 THEN r ELSE FracRem((r * 8192) % d, d, k - 1)

\* the float that a decimal literal or a quotient of small integers n / d
\* denotes: the float nearest to n / d (65 bits of the quotient after the
\* point, and a sticky bit)
Dec(n, d) ==
  LET sticky == IF FracRem(n % d, d, 5) # 0 THEN 1 ELSE 0
  IN Float(NatBits(n \div d) \o FracBits(n % d, d, 5) \o <<sticky>>, -66)

\* the float literals of the program
F0_15 == Dec(15, 100)
F0_2 == Dec(2, 10)
F0_3 == Dec(3, 10)
F0_4 == Dec(4, 10)
F0_6 == Dec(6, 10)
F0_8 == Dec(8, 10)
F0_9 == Dec(9, 10)
F1_0 == Dec(1, 1)

----------------------------------------------------------------------------
(* Call outcomes.  A failure result has no risk, confidence, factors or     *)
(* model_version key: these fields hold FZero, NoFactors and "" in it.      *)

NoFactors == <<>>

\* an exception of type e escaped the call; error holds str(exception)
Raised(e, msg) ==
  [raised |-> TRUE, exc |-> e, success |-> FALSE, error |-> msg, risk |-> FZero,
   confidence |-> FZero, factors |-> NoFactors, model_version |-> ""]

Failure(msg) ==
  [raised |-> FALSE, exc |-> "", success |-> FALSE, error |-> msg, risk |-> FZero,
   confidence |-> FZero, factors |-> NoFactors, model_version |-> ""]

\* lines 286-292
HeuristicResult(risk, factors) ==
  [raised |-> FALSE, exc |-> "", success |-> TRUE, error |-> "", risk |-> FMin(risk, F1_0),
   confidence |-> F0_6, factors |-> factors, model_version |-> "heuristic"]

\* str(KeyError(k))
KeyErrorText(k) == "'" \o k \o "'"

Factor(name, w) == [factor |-> name, importance |-> w]

----------------------------------------------------------------------------
(* _heuristic_collapse_prediction *)

\* faulty variant: "if" in place of "elif", both plant rules fire below 10
HeurPlantsMutant(latest) ==
  (IF latest.plants < 10 THEN <<Factor("critically_low_plants", F0_4)>> ELSE <<>>)
  \o (IF latest.plants < 30 THEN <<Factor("low_plants", F0_2)>> ELSE <<>>)

\* lines 263-268: if plants < 10 ... elif plants < 30 ...
HeurPlants(latest) ==
  IF latest.plants < 10 THEN <<Factor("critically_low_plants", F0_4)>>
  ELSE IF latest.plants < 30 THEN <<Factor("low_plants", F0_2)>>
  ELSE <<>>

\* lines 270-272
HeurHerbivores(latest) ==
  IF latest.herbivores < 3 THEN <<Factor("critically_low_herbivores", F0_3)>> ELSE <<>>

\* lines 274-276: carnivores > herbivores * 1.5
HeurPredators(latest) ==
  IF 2 * latest.carnivores > 3 * latest.herbivores
  THEN <<Factor("predator_overload", F0_2)>> ELSE <<>>

\* lines 279-284: (recent_trend[-1].plants - recent_trend[0].plants) / 3 < -5
HeurTrend(recent_data) ==
  IF Len(recent_data) >= 3
  THEN LET recent_trend == PyTail(recent_data, 3)
           diff == PyAt(recent_trend, -1).plants - PyAt(recent_trend, 0).plants
       IN IF diff < -5 * 3 THEN <<Factor("declining_plant_trend", F0_15)>> ELSE <<>>
  ELSE <<>>

\* the keys the heuristic reads: a missing one raises KeyError
HeurKeysPresent(recent_data) ==
  /\ \A k \in PopKeys : HasKey(PyAt(recent_data, -1), k)
  /\ Len(recent_data) >= 3 => HasKey(PyAt(recent_data, -3), "plants")

\* the key whose lookup raises: lines 263, 270 and 274 read plants,
\* herbivores and carnivores of the latest snapshot in this order, line 281
\* reads plants of the third-from-last snapshot
HeurMissingKey(recent_data) ==
  LET latest == PyAt(recent_data, -1)
  IN IF ~HasKey(latest, "plants") THEN "plants"
     ELSE IF ~HasKey(latest, "herbivores") THEN "herbivores"
     ELSE IF ~HasKey(latest, "carnivores") THEN "carnivores"
     ELSE "plants"

\* risk = 0.0, then risk += importance for each triggered rule in turn
RECURSIVE SumImportance(_, _)
SumImportance(risk, fs) ==
  IF fs = <<>> THEN risk ELSE SumImportance(FAdd(risk, fs[1].importance), Tail(fs))

_heuristic_collapse_prediction(recent_data) ==
  IF recent_data = <<>> THEN Failure("No data provided")
  ELSE IF ~HeurKeysPresent(recent_data)
  THEN Raised("KeyError", KeyErrorText(HeurMissingKey(recent_data)))
  ELSE LET latest == PyAt(recent_data, -1)
           factors == HeurPlants(latest) \o HeurHerbivores(latest)
                      \o HeurPredators(latest) \o HeurTrend(recent_data)
       IN HeuristicResult(SumImportance(FZero, factors), factors)

----------------------------------------------------------------------------
(* Feature extraction: prepare_features (training path) and the feature    *)
(* vector of predict_collapse_risk (inference path)                        *)

Whole(v) == <<v, 1>>
Frac(n, d) == <<n, d>>

Column(rows, key) == [j \in 1..Len(rows) |-> rows[j][key]]

\* np.std(xs), ddof = 0, carried as its square:
\* mean((x - mean)^2) = (n * sum(x^2) - sum(x)^2) / n^2
NpStd(xs) ==
  LET n == Len(xs)
  IN Frac(n * SumSeq([j \in 1..n |-> xs[j] * xs[j]]) - SumSeq(xs) * SumSeq(xs), n * n)

\* lines 69-103, with i the 0-based loop index of line 68
TrainFeatureRow(df, i) ==
  LET lookback == SubSeq(df, (i - Lookback) + 1, i)
      last == PyAt(lookback, -1)
      first == PyAt(lookback, 0)
  IN << Whole(last.plants),
        Whole(last.herbivores),
        Whole(last.carnivores),
        Frac(last.plants - first.plants, 5),
        Frac(last.herbivores - first.herbivores, 5),
        Frac(last.carnivores - first.carnivores, 5),
        Frac(last.plants, Max2(last.herbivores, 1)),
        Frac(last.herbivores, Max2(last.carnivores, 1)),
        Frac(last.carnivores, Max2(last.herbivores, 1)),
        Whole(last.plants + last.herbivores + last.carnivores),
        NpStd([j \in 1..Len(lookback) |-> lookback[j].plants]),
        NpStd([j \in 1..Len(lookback) |-> lookback[j].herbivores]),
        NpStd([j \in 1..Len(lookback) |-> lookback[j].carnivores]),
        Whole(MinSeq(Column(lookback, "plants"))),
        Whole(MaxSeq(Column(lookback, "plants"))),
        Whole(MinSeq(Column(lookback, "herbivores"))),
        Whole(MaxSeq(Column(lookback, "herbivores"))),
        Whole(MinSeq(Column(lookback, "carnivores"))),
        Whole(MaxSeq(Column(lookback, "carnivores"))) >>

\* faulty variant: the plants boundary taken as plants <= 5
CollapseLabelMutant(next_step) ==
  IF next_step.plants <= 5 \/ next_step.herbivores = 0 \/ next_step.carnivores = 0
  THEN 1 ELSE 0

\* lines 108-112
CollapseLabel(next_step) ==
  IF next_step.plants < 5 \/ next_step.herbivores = 0 \/ next_step.carnivores = 0
  THEN 1 ELSE 0

PrepareRaised(msg) == [raised |-> TRUE, exc |-> "ValueError", error |-> msg, X |-> <<>>, y |-> <<>>]

InsufficientMsg == "Insufficient data for prediction (need at least 10 data points)"

\* lines 56-114
prepare_features(data) ==
  IF Len(data) < MinData THEN PrepareRaised(InsufficientMsg)
  ELSE LET n == Len(data)
           \* example k (1-based) is loop index i = k + Lookback - 1
       IN [raised |-> FALSE, exc |-> "", error |-> "",
           X |-> [k \in 1..(n - Lookback) |-> TrainFeatureRow(data, k + Lookback - 1)],
           y |-> [k \in 1..(n - Lookback) |-> CollapseLabel(PyAt(data, k + Lookback - 1))]]

\* faulty variant: the ninth feature divides by carnivores, mirroring the eighth
InferFeaturesMutant(recent_data) ==
  LET lookback == PyTail(recent_data, Lookback)
      last == PyAt(lookback, -1)
      first == PyAt(lookback, 0)
  IN << Whole(last.plants),
        Whole(last.herbivores),
        Whole(last.carnivores),
        Frac(last.plants - first.plants, 5),
        Frac(last.herbivores - first.herbivores, 5),
        Frac(last.carnivores - first.carnivores, 5),
        Frac(last.plants, Max2(last.herbivores, 1)),
        Frac(last.herbivores, Max2(last.carnivores, 1)),
        Frac(last.carnivores, Max2(last.carnivores, 1)),
        Whole(SumSeq(<<last.plants, last.herbivores, last.carnivores>>)),
        NpStd(Column(lookback, "plants")),
        NpStd(Column(lookback, "herbivores")),
        NpStd(Column(lookback, "carnivores")),
        Whole(MinSeq(Column(lookback, "plants"))),
        Whole(MaxSeq(Column(lookback, "plants"))),
        Whole(MinSeq(Column(lookback, "herbivores"))),
        Whole(MaxSeq(Column(lookback, "herbivores"))),
        Whole(MinSeq(Column(lookback, "carnivores"))),
        Whole(MaxSeq(Column(lookback, "carnivores"))) >>

\* lines 186-220
InferFeatures(recent_data) ==
  LET lookback == PyTail(recent_data, Lookback)
      last == PyAt(lookback, -1)
      first == PyAt(lookback, 0)
  IN << Whole(last.plants),
        Whole(last.herbivores),
        Whole(last.carnivores),
        Frac(last.plants - first.plants, 5),
        Frac(last.herbivores - first.herbivores, 5),
        Frac(last.carnivores - first.carnivores, 5),
        Frac(last.plants, Max2(last.herbivores, 1)),
        Frac(last.herbivores, Max2(last.carnivores, 1)),
        Frac(last.carnivores, Max2(last.herbivores, 1)),
        Whole(SumSeq(<<last.plants, last.herbivores, last.carnivores>>)),
        NpStd(Column(lookback, "plants")),
        NpStd(Column(lookback, "herbivores")),
        NpStd(Column(lookback, "carnivores")),
        Whole(MinSeq(Column(lookback, "plants"))),
        Whole(MaxSeq(Column(lookback, "plants"))),
        Whole(MinSeq(Column(lookback, "herbivores"))),
        Whole(MaxSeq(Column(lookback, "herbivores"))),
        Whole(MinSeq(Column(lookback, "carnivores"))),
        Whole(MaxSeq(Column(lookback, "carnivores"))) >>

\* the keys lines 189-219 read: a missing one raises KeyError
InferKeysPresent(recent_data) ==
  LET lookback == PyTail(recent_data, Lookback)
  IN \A j \in 1..Len(lookback) : \A k \in PopKeys : HasKey(lookback[j], k)

----------------------------------------------------------------------------
(* forecast_populations *)

\* int(x) of the fraction n/d, d > 0: truncation toward zero
Trunc(n, d) == IF n >= 0 THEN n \div d ELSE -((-n) \div d)

\* df.tail(min(10, len(df))), lines 308-309
TrendRows(ts) == PyTail(ts, Min2(TrendWindow, Len(ts)))

\* np.polyfit(x, ys, 1) with x = 0..m-1, evaluated at t as coef[0]*t + coef[1]
\* (lines 312-316): the least-squares line, as the exact fraction
\*   ((m*Sxy - Sx*Sy) * (m*t - Sx) + Sy*D) / (m*D),   D = m*Sxx - Sx^2
LineAt(ys, t) ==
  LET m == Len(ys)
      Sx == SumSeq([j \in 1..m |-> j - 1])
      Sxx == SumSeq([j \in 1..m |-> (j - 1) * (j - 1)])
      Sy == SumSeq(ys)
      Sxy == SumSeq([j \in 1..m |-> (j - 1) * ys[j]])
      D == m * Sxx - Sx * Sx
  IN Frac((m * Sxy - Sx * Sy) * (m * t - Sx) + Sy * D, m * D)

\* lines 315-316, 319-320, 323-324
PopForecast(ts, key, step) ==
  LET recent_data == TrendRows(ts)
  IN LineAt(Column(recent_data, key), Len(recent_data) + step - 1)

Drawn(v) == [ok |-> TRUE, v |-> v]
DrawRaised == [ok |-> FALSE, v |-> 0]

\* lines 327, 331-333: max(0, int(f + np.random.normal(0, 0.1 * step * f))).
\* np.random.normal raises ValueError("scale < 0") for a negative scale.  A
\* forecast that is exactly zero is computed in floating point as a zero or
\* as a tiny value of either sign: the draw raises or the value is 0.
\* For a positive forecast the draw is any real number, bounded here by MaxZ
\* standard deviations upwards and unbounded downwards: the value is any
\* integer from 0 to int(f + MaxZ * 0.1 * step * f).
NoisyValues(f, step) ==
  IF f[1] < 0 THEN {DrawRaised}
  ELSE IF f[1] = 0 THEN {DrawRaised, Drawn(0)}
  ELSE {Drawn(v) : v \in 0..Trunc(f[1] * (10 + step * MaxZ), 10 * f[2])}

\* lines 337-338: base_confidence * (0.9 ** steps)
ForecastConfidence(steps) == FMul(F0_8, FPow(F0_9, steps))

\* the confidence of every horizon the inputs ask for
ConfidenceTable == [k \in 0..MaxSteps |-> ForecastConfidence(k)]

\* lines 347-354: slope of the least-squares line over the last 5 rows,
\* slope = (5*Sxy - 10*Sy) / 50
TrendLabel(ts, key) ==
  LET ys == Column(PyTail(ts, 5), key)
      num == 5 * SumSeq([j \in 1..5 |-> (j - 1) * ys[j]]) - 10 * SumSeq(ys)
  IN IF num > 2 * 50 THEN "increasing"
     ELSE IF num < (-2) * 50 THEN "decreasing"
     ELSE "stable"

ForecastFailure(msg) ==
  [raised |-> FALSE, success |-> FALSE, error |-> msg, predictions |-> <<>>,
   confidence |-> FZero, trends |-> EmptyDict, forecast_horizon |-> 0]

\* lines 356-362
ForecastSuccess(ts, forecasts, steps) ==
  [raised |-> FALSE, success |-> TRUE, error |-> "", predictions |-> forecasts,
   confidence |-> IF steps \in DOMAIN ConfidenceTable THEN ConfidenceTable[steps]
                  ELSE ForecastConfidence(steps),
   trends |-> [key \in PopKeys |-> TrendLabel(ts, key)],
   forecast_horizon |-> steps]

----------------------------------------------------------------------------
(* Input histories: snapshot i of n (1-based) of a species with parameters *)
(* t = <<last, back, stair>> holds                                         *)
(*   max(0, last + back * (n - i) + stair * ((n - i) div 2)),              *)
(* so that last is the newest value and back the per-step change going     *)
(* back in time.                                                           *)

SpeciesAt(t, n, i) == Max2(0, t[1] + t[2] * (n - i) + t[3] * ((n - i) \div 2))

GenHist(n, tp, th, tc, step0) ==
  [i \in 1..n |-> Snap(SpeciesAt(tp, n, i), SpeciesAt(th, n, i), SpeciesAt(tc, n, i),
                       step0 + i - 1)]

NoInput == [op |-> "none", data |-> <<>>, steps |-> 0]
NoOutput == [op |-> "none"]

\* a file of model_dir: absent, partially written, or a complete pickle of
\* the artifact fitted by training run `run`
Absent == [state |-> "absent", run |-> 0, classes |-> 0]
Partial == [state |-> "partial", run |-> 0, classes |-> 0]
Complete(run, classes) == [state |-> "complete", run |-> run, classes |-> classes]

\* a thread in train_collapse_predictor: n is len(ecosystem_data), kept until
\* the checks of lines 122-128 are done; run and classes describe the local
\* variables scaler and model (classes until model is last read, line 156),
\* labels the values of y until the fit.  branch tells how the request
\* went: "call" when train_collapse_predictor was called (directly or by the
\* /train handler, which passes its result on unchanged, line 469), "refused"
\* when the handler refused the request (line 460), "handler_error" when an
\* exception reached the handler's except clause
TrainerIdle ==
  [pc |-> "idle", n |-> 0, run |-> 0, classes |-> 0, labels |-> {},
   returned |-> FALSE, success |-> FALSE, error |-> "", branch |-> "none"]

\* the threads running trainings, two of which can be in progress at once; a
\* call is served by the first free thread
Trainers == {1, 2}

\* the runs of the scaler of line 223 and of the classifier of line 226
NoUse == [scaler |-> 0, clf |-> 0]

\* via tells whether predict_collapse_risk was called directly or by the
\* /predict/collapse handler; proba and conf hold the values of lines 226 and
\* 227 until the result is built
ReaderIdle ==
  [pc |-> "idle", recent |-> <<>>, branch |-> "none", used |-> NoUse,
   res |-> Failure(""), via |-> "direct", proba |-> <<>>, conf |-> FZero]

\* reader threads only read the shared state and never interact: one of them
\* stands for all
Readers == {"reader"}

\* lines 46-54 on an empty model_dir: the state after construction
ServiceInit ==
  /\ models = EmptyDict
  /\ scalers = EmptyDict
  /\ is_trained = FALSE
  /\ disk = [model |-> Absent, scaler |-> Absent]
  /\ runs = 0
  /\ trainers = [t \in Trainers |-> TrainerIdle]
  /\ readers = [r \in Readers |-> ReaderIdle]

----------------------------------------------------------------------------
(* The service: threads in train_collapse_predictor, threads in            *)
(* predict_collapse_risk, the files of model_dir, and process restarts.    *)
(* A fitted artifact is named by the number of the training run that       *)
(* fitted it; a classifier also carries the number of classes it was       *)
(* fitted on (predict_proba has one column per class).                     *)
(* app.run (line 481) serves each request in its own thread, so calls on   *)
(* the global predictor (line 386) interleave at the granularity of their  *)
(* reads and writes of self.models, self.scalers and the files; the code   *)
(* takes no lock, neither between a training and a prediction nor between  *)
(* two trainings.                                                          *)
(* The fields used and branch of a reader record history for the          *)
(* properties below; no action reads them, except that used.clf names the  *)
(* classifier that gave proba.  runs numbers the fits and is capped at     *)
(* MaxRuns.                                                                *)

Classifier(run, classes) == [run |-> run, classes |-> classes]
Scaler(run) == [run |-> run]

HasModel(d) == "collapse" \in DOMAIN d
Installed(v) == [k \in {"collapse"} |-> v]

SmallDataMsg == "Insufficient training data (need at least 30 data points)"

TrainLens ==
  {0, MinData - 1, MinData, MinExamples + Lookback - 1, MinExamples + Lookback, MaxHist}

\* histories given to training: a stable ecosystem (no collapse label) and a
\* declining one (both labels)
TrainInputs ==
  {GenHist(n, tp, <<10, 0, 0>>, <<5, 0, 0>>, 0) : n \in TrainLens, tp \in {<<50, 0, 0>>, <<0, 2, 0>>}}

\* each training input with what prepare_features makes of it (line 122)
TrainCases == {[n |-> Len(h), p |-> prepare_features(h)] : h \in TrainInputs}

TrainFailed(t, msg) ==
  [t EXCEPT !.pc = "idle", !.returned = TRUE, !.success = FALSE, !.error = msg,
            !.classes = 0, !.labels = {}]

\* faulty variant: the example threshold off by one
EnoughExamplesMutant(X) == Len(X) >= MinExamples - 1

\* line 124: not (len(X) < 20)
EnoughExamples(X) == ~(Len(X) < MinExamples)

\* lines 116-128 (and 170-172 when prepare_features raises), for the thread
\* tr called on a history of n snapshots of which prepare_features makes p
StartTrain(tr, n, p) ==
  LET call == [tr EXCEPT !.n = n, !.branch = "call"]
  IN IF p.raised THEN TrainFailed(call, p.error)
     ELSE IF ~EnoughExamples(p.X) THEN TrainFailed(call, SmallDataMsg)
     ELSE [call EXCEPT !.pc = "fit", !.labels = {p.y[k] : k \in 1..Len(p.y)}]

\* lines 116-128: a direct call of train_collapse_predictor
Train_Prepare(t) ==
  /\ trainers[t].pc = "idle"
  /\ \A u \in Trainers : u < t => trainers[u].pc # "idle"
  /\ \E c \in TrainCases :
       trainers' = [trainers EXCEPT ![t] = StartTrain(TrainerIdle, c.n, c.p)]
  /\ UNCHANGED <<models, scalers, is_trained, disk, runs, readers, pin, pout>>

\* request.get_json() giving None (a body that is the JSON null)
NullBody == [json_null |-> TRUE]
IsNull(data) == HasKey(data, "json_null")

\* str(e) of the AttributeError raised by data.get on None (lines 404, 458)
NoneGetText == "'NoneType' object has no attribute 'get'"

TooFewMsg == "Need at least 50 data points for training"

TrainRequestLens == {MinExamples + Lookback, MinTrainRequest - 1, MinTrainRequest}

\* request bodies of POST /train: with ecosystem_data a stable or a declining
\* history, without ecosystem_data, and null
TrainRequests ==
  {[ecosystem_data |-> GenHist(n, tp, <<10, 0, 0>>, <<5, 0, 0>>, 0)] :
     n \in TrainRequestLens, tp \in {<<50, 0, 0>>, <<0, 2, 0>>}}
  \cup {EmptyDict, NullBody}

\* line 458: data.get('ecosystem_data', [])
RequestHistory(data) ==
  IF HasKey(data, "ecosystem_data") THEN data.ecosystem_data ELSE <<>>

\* each request with what prepare_features makes of its history (line 122)
TrainRequestCases ==
  {[data |-> d, p |-> prepare_features(RequestHistory(d))] : d \in TrainRequests}

\* lines 453-467 and 471-476: the /train handler up to and including its
\* call of train_collapse_predictor (lines 116-128).  A null body raises
\* AttributeError at line 458, answered by lines 471-476 with str(e); fewer
\* than 50 snapshots are refused at line 460 without calling
\* train_collapse_predictor.
E_TrainModels(t) ==
  /\ trainers[t].pc = "idle"
  /\ \A u \in Trainers : u < t => trainers[u].pc # "idle"
  /\ \E c \in TrainRequestCases :
       trainers' = [trainers EXCEPT ![t] =
         IF IsNull(c.data)
         THEN TrainFailed([TrainerIdle EXCEPT !.branch = "handler_error"], NoneGetText)
         ELSE LET ecosystem_data == RequestHistory(c.data)
              IN IF Len(ecosystem_data) < MinTrainRequest
                 THEN TrainFailed([TrainerIdle EXCEPT !.branch = "refused",
                                                      !.n = Len(ecosystem_data)], TooFewMsg)
                 ELSE StartTrain(TrainerIdle, Len(ecosystem_data), c.p)]
  /\ UNCHANGED <<models, scalers, is_trained, disk, runs, readers, pin, pout>>

\* lines 461-464, 469 and 473-476: the response of the handler whose thread
\* tr has returned: jsonify of the record, with status 500 from the except
\* clause
TrainResponse(tr) ==
  [status |-> IF tr.branch = "handler_error" THEN 500 ELSE 200,
   body |-> [success |-> tr.success, error |-> tr.error]]

\* lines 130-149: split, scale, fit, evaluate.  The fit may raise (caught at
\* line 170).  The classifier has two classes only if both labels fall in
\* the training split, which the shuffled split decides.
Train_Fit(t) ==
  /\ trainers[t].pc = "fit"
  /\ runs < MaxRuns
  /\ \/ /\ trainers' = [trainers EXCEPT ![t] =
                            TrainFailed([@ EXCEPT !.n = 0], "fit error")]
        /\ runs' = runs
     \/ /\ runs' = runs + 1
        /\ \E c \in (IF trainers[t].labels = {0, 1} THEN {1, 2} ELSE {1}) :
             trainers' = [trainers EXCEPT ![t] =
                            [@ EXCEPT !.pc = "install_model", !.run = runs + 1,
                                      !.classes = c, !.labels = {}, !.n = 0]]
  /\ UNCHANGED <<models, scalers, is_trained, disk, readers, pin, pout>>

\* line 152
Train_InstallModel(t) ==
  /\ trainers[t].pc = "install_model"
  /\ models' = Installed(Classifier(trainers[t].run, trainers[t].classes))
  /\ trainers' = [trainers EXCEPT ![t].pc = "install_scaler"]
  /\ UNCHANGED <<scalers, is_trained, disk, runs, readers, pin, pout>>

\* line 153
Train_InstallScaler(t) ==
  /\ trainers[t].pc = "install_scaler"
  /\ scalers' = Installed(Scaler(trainers[t].run))
  /\ trainers' = [trainers EXCEPT ![t].pc = "dump_model"]
  /\ UNCHANGED <<models, is_trained, disk, runs, readers, pin, pout>>

\* line 156, joblib.dump opening collapse_model.pkl for writing: the file is
\* truncated, or the open raises and the file is untouched
Train_DumpModel(t) ==
  /\ trainers[t].pc = "dump_model"
  /\ \/ /\ disk' = [disk EXCEPT !.model = Partial]
        /\ trainers' = [trainers EXCEPT ![t].pc = "write_model"]
     \/ /\ disk' = disk
        /\ trainers' = [trainers EXCEPT ![t] = TrainFailed(@, "dump error")]
  /\ UNCHANGED <<models, scalers, is_trained, runs, readers, pin, pout>>

\* line 156, joblib.dump writing the pickle: completes, or raises midway
Train_WriteModel(t) ==
  /\ trainers[t].pc = "write_model"
  /\ \/ /\ disk' = [disk EXCEPT !.model = Complete(trainers[t].run, trainers[t].classes)]
        /\ trainers' = [trainers EXCEPT ![t] =
                           [@ EXCEPT !.pc = "dump_scaler", !.classes = 0]]
     \/ /\ disk' = disk
        /\ trainers' = [trainers EXCEPT ![t] = TrainFailed(@, "dump error")]
  /\ UNCHANGED <<models, scalers, is_trained, runs, readers, pin, pout>>

\* line 157, opening collapse_scaler.pkl
Train_DumpScaler(t) ==
  /\ trainers[t].pc = "dump_scaler"
  /\ \/ /\ disk' = [disk EXCEPT !.scaler = Partial]
        /\ trainers' = [trainers EXCEPT ![t].pc = "write_scaler"]
     \/ /\ disk' = disk
        /\ trainers' = [trainers EXCEPT ![t] = TrainFailed(@, "dump error")]
  /\ UNCHANGED <<models, scalers, is_trained, runs, readers, pin, pout>>

\* line 157, writing the pickle
Train_WriteScaler(t) ==
  /\ trainers[t].pc = "write_scaler"
  /\ \/ /\ disk' = [disk EXCEPT !.scaler = Complete(trainers[t].run, 0)]
        /\ trainers' = [trainers EXCEPT ![t].pc = "return"]
     \/ /\ disk' = disk
        /\ trainers' = [trainers EXCEPT ![t] = TrainFailed(@, "dump error")]
  /\ UNCHANGED <<models, scalers, is_trained, runs, readers, pin, pout>>

\* lines 159-168
Train_Return(t) ==
  /\ trainers[t].pc = "return"
  /\ trainers' = [trainers EXCEPT ![t] =
                    [@ EXCEPT !.pc = "idle", !.returned = TRUE, !.success = TRUE]]
  /\ UNCHANGED <<models, scalers, is_trained, disk, runs, readers, pin, pout>>

GoodSnap == Snap(8, 2, 5, 0)
\* a snapshot without the plants field
BadSnap == [herbivores |-> 2, carnivores |-> 5, step |-> 0]

FiveGood == GenHist(Lookback, <<40, 3, 0>>, <<10, 0, 0>>, <<5, 0, 0>>, 0)

PredictInputs ==
  { <<>>, <<GoodSnap>>, <<BadSnap>>,
    FiveGood, <<GoodSnap>> \o FiveGood,
    [FiveGood EXCEPT ![1] = BadSnap], [FiveGood EXCEPT ![Lookback] = BadSnap] }

\* request bodies of POST /predict/collapse: with features.current holding
\* the three counts, with features.current lacking counts, with features
\* lacking current, without features, and null
CurrentCounts ==
  { [plants |-> 8, herbivores |-> 2, carnivores |-> 5],
    [plants |-> 50, herbivores |-> 10, carnivores |-> 5],
    [plants |-> 8, herbivores |-> 2],
    [herbivores |-> 2, carnivores |-> 5],
    [plants |-> 8] }

CollapseRequests ==
  {[features |-> [current |-> c], steps |-> 5] : c \in CurrentCounts}
  \cup {[features |-> EmptyDict, steps |-> 5], [steps |-> 5], NullBody}

\* line 404: data.get('features', {})
RequestFeatures(data) == IF HasKey(data, "features") THEN data.features ELSE EmptyDict

\* lines 412-414 read plants, herbivores and carnivores in this order
HasCounts(current) == \A k \in PopKeys : HasKey(current, k)

MissingCount(current) ==
  IF ~HasKey(current, "plants") THEN "plants"
  ELSE IF ~HasKey(current, "herbivores") THEN "herbivores"
  ELSE "carnivores"

\* faulty variant: the current snapshot repeated to fill the lookback window
EndpointRecentMutant(current) ==
  [j \in 1..Lookback |->
     Snap(current.plants, current.herbivores, current.carnivores, 0)]

\* lines 411-416: the one-snapshot list built from features.current
EndpointRecent(current) ==
  <<Snap(current.plants, current.herbivores, current.carnivores, 0)>>

\* the heuristic's result on the snapshot sequences the requests carry
HeuristicTable ==
  [d \in PredictInputs \cup {EndpointRecent(c) : c \in {k \in CurrentCounts : HasCounts(k)}}
     |-> _heuristic_collapse_prediction(d)]

\* self._heuristic_collapse_prediction(recent_data)
Heuristic(recent_data) ==
  IF recent_data \in DOMAIN HeuristicTable THEN HeuristicTable[recent_data]
  ELSE _heuristic_collapse_prediction(recent_data)

\* lines 249-251: the except clause returns the heuristic's result; an
\* exception raised by the heuristic there escapes predict_collapse_risk
Fallback(recent_data) == Heuristic(recent_data)

\* lines 177-179: the heuristic called inside the try; an exception it raises
\* is caught at line 249 and the heuristic is called again at line 251
NoModelPath(recent_data) ==
  LET h == Heuristic(recent_data)
  IN IF h.raised THEN Fallback(recent_data) ELSE h

ReaderDone(rd, branch, res) ==
  [rd EXCEPT !.pc = "idle", !.branch = branch, !.res = res]

\* lines 174-220: the test of line 177, the length check and the feature
\* vector (which reads no shared state), for the thread rd called on recent
StartPredict(rd, recent) ==
  IF ~HasModel(models)
  THEN ReaderDone(rd, "no_model", NoModelPath(recent))
  ELSE IF Len(recent) < Lookback \/ ~InferKeysPresent(recent)
  THEN ReaderDone(rd, "failed", Fallback(recent))
  ELSE [rd EXCEPT !.pc = "scale", !.branch = "model"]

\* lines 174-220: a direct call of predict_collapse_risk
P_Call(r) ==
  /\ readers[r].pc = "idle"
  /\ \E recent \in PredictInputs :
       readers' = [readers EXCEPT ![r] =
                     StartPredict([ReaderIdle EXCEPT !.recent = recent], recent)]
  /\ UNCHANGED <<models, scalers, is_trained, disk, runs, trainers, pin, pout>>

\* lines 399-425: the /predict/collapse handler up to and including its call
\* of predict_collapse_risk.  A missing count raises KeyError at lines
\* 412-414, answered by lines 428-433 with str(e), the quoted key; a null
\* body raises AttributeError at line 404, answered likewise.
E_PredictCollapse(r) ==
  /\ readers[r].pc = "idle"
  /\ \E data \in CollapseRequests :
       LET features == RequestFeatures(data)
           rd == [ReaderIdle EXCEPT !.via = "endpoint"]
       IN readers' = [readers EXCEPT ![r] =
            IF IsNull(data)
            THEN ReaderDone(rd, "handler_error", Failure(NoneGetText))
            ELSE IF ~HasKey(features, "current")
            THEN ReaderDone(rd, "invalid", Failure("Invalid features format"))
            ELSE IF ~HasCounts(features.current)
            THEN ReaderDone(rd, "handler_error",
                            Failure(KeyErrorText(MissingCount(features.current))))
            ELSE LET recent_data == EndpointRecent(features.current)
                 IN StartPredict([rd EXCEPT !.recent = recent_data], recent_data)]
  /\ UNCHANGED <<models, scalers, is_trained, disk, runs, trainers, pin, pout>>

\* lines 426-433: the response of the handler whose thread rd has finished:
\* jsonify(result), or status 500 with str(e) when an exception reached the
\* handler
CollapseResponse(rd) ==
  IF rd.res.raised THEN [status |-> 500, body |-> Failure(rd.res.error)]
  ELSE IF rd.branch = "handler_error" THEN [status |-> 500, body |-> rd.res]
  ELSE [status |-> 200, body |-> rd.res]

\* line 223: self.scalers['collapse'] (KeyError when absent), transform
P_Scale(r) ==
  /\ readers[r].pc = "scale"
  /\ readers' = [readers EXCEPT ![r] =
       IF ~HasModel(scalers)
       THEN ReaderDone(@, "failed", Fallback(@.recent))
       ELSE [@ EXCEPT !.pc = "predict", !.used.scaler = scalers["collapse"].run]]
  /\ UNCHANGED <<models, scalers, is_trained, disk, runs, trainers, pin, pout>>

F0_25 == Dec(25, 100)
F0_75 == Dec(75, 100)

\* predict_proba(features_scaled)[0]: one probability per class, summing to
\* 1; which, the fitted forest decides
ProbaRows(classes) ==
  IF classes < 2 THEN {<<F1_0>>}
  ELSE {<<F0_25, F0_75>>, <<F0_75, F0_25>>}

\* max(row) of line 227
RECURSIVE MaxProba(_)
MaxProba(row) == IF Len(row) = 1 THEN row[1] ELSE FMax(row[1], MaxProba(Tail(row)))

\* line 226: self.models['collapse'].predict_proba(...)[0][1]; IndexError
\* when the classifier was fitted on a single class
P_Predict(r) ==
  /\ readers[r].pc = "predict"
  /\ LET clf == models["collapse"]
     IN \E row \in ProbaRows(clf.classes) :
          readers' = [readers EXCEPT ![r] =
            IF Len(row) < 2
            THEN ReaderDone([@ EXCEPT !.used.clf = clf.run], "failed", Fallback(@.recent))
            ELSE [@ EXCEPT !.pc = "confidence", !.used.clf = clf.run, !.proba = row]]
  /\ UNCHANGED <<models, scalers, is_trained, disk, runs, trainers, pin, pout>>

\* line 227: self.models['collapse'] read again and queried again on the same
\* features: the classifier of line 226 gives the same row, another one gives
\* a row of its own
P_Confidence(r) ==
  /\ readers[r].pc = "confidence"
  /\ LET clf == models["collapse"]
         rows == IF clf.run = readers[r].used.clf THEN {readers[r].proba}
                 ELSE ProbaRows(clf.classes)
     IN \E row \in rows :
          readers' = [readers EXCEPT ![r] =
            [@ EXCEPT !.pc = "importance", !.conf = MaxProba(row)]]
  /\ UNCHANGED <<models, scalers, is_trained, disk, runs, trainers, pin, pout>>

\* lines 230-236
feature_names ==
  << "plants", "herbivores", "carnivores", "plant_trend", "herbivore_trend",
     "carnivore_trend", "plant_herb_ratio", "herb_carn_ratio", "carn_herb_ratio",
     "total_biomass", "plant_volatility", "herbivore_volatility", "carnivore_volatility",
     "min_plants", "max_plants", "min_herbivores", "max_herbivores",
     "min_carnivores", "max_carnivores" >>

\* feature_importances_ of a fitted forest: 19 floats; here all equal, or
\* all of the importance on two features
ImportanceProfiles ==
  { [k \in 1..NFeatures |-> Dec(1, NFeatures)],
    [k \in 1..NFeatures |-> IF k \in {7, NFeatures} THEN Dec(1, 2) ELSE FZero] }

\* line 239: sorted(zip(feature_names, importance), key=lambda x: x[1],
\* reverse=True)[:5]; the sort is stable, equal importances keep the order
\* of feature_names
TopFactors(importance) ==
  LET n == Min2(Len(feature_names), Len(importance))
      rank(i) == 1 + Cardinality({j \in 1..n : FLess(importance[i], importance[j])})
                   + Cardinality({j \in 1..(i - 1) : importance[j] = importance[i]})
      at(k) == CHOOSE i \in 1..n : rank(i) = k
  IN [k \in 1..Min2(5, n) |-> Factor(feature_names[at(k)], importance[at(k)])]

TopFactorsTable == [imp \in ImportanceProfiles |-> TopFactors(imp)]

\* lines 241-247
ModelResult(risk, confidence, factors) ==
  [raised |-> FALSE, exc |-> "", success |-> TRUE, error |-> "", risk |-> risk,
   confidence |-> confidence, factors |-> factors, model_version |-> "1.0"]

\* lines 229-247: self.models['collapse'] read again for the importances,
\* and the classifier-backed result
P_Importance(r) ==
  /\ readers[r].pc = "importance"
  /\ \E imp \in ImportanceProfiles :
       readers' = [readers EXCEPT ![r] =
         ReaderDone(@, "model", ModelResult(@.proba[2], @.conf, TopFactorsTable[imp]))]
  /\ UNCHANGED <<models, scalers, is_trained, disk, runs, trainers, pin, pout>>

\* lines 368-383: what load_models leaves in memory, given the files.
\* joblib.load of a partially written file raises; the except clause of
\* line 382 keeps whatever was assigned before.
LoadedModels(d) ==
  IF d.model.state # "absent" /\ d.scaler.state # "absent" /\ d.model.state = "complete"
  THEN Installed(Classifier(d.model.run, d.model.classes))
  ELSE EmptyDict

LoadedScalers(d) ==
  IF /\ d.model.state # "absent" /\ d.scaler.state # "absent"
     /\ d.model.state = "complete" /\ d.scaler.state = "complete"
  THEN Installed(Scaler(d.scaler.run))
  ELSE EmptyDict

LoadedFlag(d) == d.model.state = "complete" /\ d.scaler.state = "complete"

\* the process dies (whatever its threads were doing) and is started again:
\* lines 46-54 and 386
Restart ==
  /\ models' = LoadedModels(disk)
  /\ scalers' = LoadedScalers(disk)
  /\ is_trained' = LoadedFlag(disk)
  /\ trainers' = [t \in Trainers |-> TrainerIdle]
  /\ readers' = [r \in Readers |-> ReaderIdle]
  /\ UNCHANGED <<disk, runs, pin, pout>>

\* a call has returned and its response has not yet been handed over
TrainerReturned(tr) == tr.returned
ReaderReturned(rd) == rd.pc = "idle" /\ rd.branch # "none"

ResponsePending ==
  \/ \E t \in Trainers : TrainerReturned(trainers[t])
  \/ \E r \in Readers : ReaderReturned(readers[r])

\* the return statements (lines 125, 159, 172; 179, 241, 251; 426, 428): the
\* response is handed to the caller and the thread is free for the next
\* request
Respond ==
  /\ ResponsePending
  /\ trainers' = [t \in Trainers |->
                    IF TrainerReturned(trainers[t]) THEN TrainerIdle ELSE trainers[t]]
  /\ readers' = [r \in Readers |->
                   IF ReaderReturned(readers[r]) THEN ReaderIdle ELSE readers[r]]
  /\ UNCHANGED <<models, scalers, is_trained, disk, runs, pin, pout>>

\* no response is waiting to be handed over
Free == ~ResponsePending

Init ==
  /\ ServiceInit
  /\ pin = NoInput
  /\ pout = NoOutput

\* Handing a response over touches nothing but the record of the thread
\* that returned, so it commutes with every step of the other threads: it is
\* scheduled first, which leaves out no state of the shared variables, no
\* position of a call in progress and no return.  The record of a returned
\* call is thus read in the state the call returned in.
Next ==
  \/ Respond
  \/ \E t \in Trainers : Free /\ Train_Prepare(t)
  \/ \E t \in Trainers : Free /\ E_TrainModels(t)
  \/ \E t \in Trainers : Free /\ Train_Fit(t)
  \/ \E t \in Trainers : Free /\ Train_InstallModel(t)
  \/ \E t \in Trainers : Free /\ Train_InstallScaler(t)
  \/ \E t \in Trainers : Free /\ Train_DumpModel(t)
  \/ \E t \in Trainers : Free /\ Train_WriteModel(t)
  \/ \E t \in Trainers : Free /\ Train_DumpScaler(t)
  \/ \E t \in Trainers : Free /\ Train_WriteScaler(t)
  \/ \E t \in Trainers : Free /\ Train_Return(t)
  \/ \E r \in Readers : Free /\ P_Call(r)
  \/ \E r \in Readers : Free /\ E_PredictCollapse(r)
  \/ \E r \in Readers : Free /\ P_Scale(r)
  \/ \E r \in Readers : Free /\ P_Predict(r)
  \/ \E r \in Readers : Free /\ P_Confidence(r)
  \/ \E r \in Readers : Free /\ P_Importance(r)
  \/ Free /\ Restart

Spec == Init /\ [][Next]_vars

----------------------------------------------------------------------------
(* Specification SpecHeur: the heuristic estimator applied to inputs *)

HeurPlantParams == {<<p, b, s>> : p \in {8, 9, 10, 29, 30, 60}, b \in {0, 7, 8}, s \in {0, 1}}
HeurHerbParams == {<<h, 0, 0>> : h \in {0, 2, 3, 4}}
HeurCarnParams == {<<c, 0, 0>> : c \in {0, 3, 5, 6, 7}}

HeurInputs ==
  {GenHist(n, tp, th, tc, 0) :
     n \in 0..MaxHeurLen, tp \in HeurPlantParams, th \in HeurHerbParams, tc \in HeurCarnParams}

ApplyHeuristic ==
  /\ pin.op = "heuristic"
  /\ pout.op = "none"
  /\ pout' = [op |-> "heuristic", res |-> _heuristic_collapse_prediction(pin.data)]
  /\ UNCHANGED <<pin, svars>>

InitHeur ==
  /\ ServiceInit
  /\ pin \in {[op |-> "heuristic", data |-> d, steps |-> 0] : d \in HeurInputs}
  /\ pout = NoOutput

NextHeur == ApplyHeuristic

SpecHeur == InitHeur /\ [][NextHeur]_vars

----------------------------------------------------------------------------
(* Specification SpecFeat: prepare_features applied to a history, then the *)
(* inference path's feature vector built for one of its windows            *)

FeatPlantParams == {<<4, 0, 0>>, <<5, 0, 0>>, <<5, -1, 0>>, <<3, 2, 1>>, <<30, -4, 0>>}
FeatHerbParams == {<<1, 0, 0>>, <<-2, 1, 0>>, <<7, -1, 1>>}
FeatCarnParams == {<<1, 0, 0>>, <<-3, 1, 1>>, <<2, 1, -3>>}

FeatInputs ==
  {GenHist(n, tp, th, tc, 0) :
     n \in (MinData - 1)..MaxFeatLen,
     tp \in FeatPlantParams, th \in FeatHerbParams, tc \in FeatCarnParams}

ApplyPrepare ==
  /\ pin.op = "features"
  /\ pout.op = "none"
  /\ pout' = [op |-> "prepare", res |-> prepare_features(pin.data)]
  /\ UNCHANGED <<pin, svars>>

\* the inference path on the window of loop index i: on the history cut after
\* snapshot i - 1 (prefix = TRUE) or on the five snapshots alone
ApplyInfer ==
  /\ pout.op = "prepare"
  /\ ~pout.res.raised
  /\ \E i \in Lookback..(Len(pin.data) - 1), prefix \in BOOLEAN :
       LET recent == IF prefix THEN SubSeq(pin.data, 1, i)
                     ELSE SubSeq(pin.data, i - Lookback + 1, i)
       IN pout' = [op |-> "window", i |-> i, recent |-> recent,
                   train |-> pout.res.X[i - Lookback + 1],
                   infer |-> InferFeatures(recent)]
  /\ UNCHANGED <<pin, svars>>

InitFeat ==
  /\ ServiceInit
  /\ pin \in {[op |-> "features", data |-> d, steps |-> 0] : d \in FeatInputs}
  /\ pout = NoOutput

NextFeat == ApplyPrepare \/ ApplyInfer

SpecFeat == InitFeat /\ [][NextFeat]_vars

----------------------------------------------------------------------------
(* Specification SpecFcst: forecast_populations, one action per loop       *)
(* iteration of lines 306-334                                              *)

FcstLens == {MinForecast - 1, MinForecast, MaxFcstLen}
FcstPlantParams == {<<3, 0, 0>>, <<0, 1, 0>>, <<4, -1, 0>>, <<3, 1, 1>>}
FcstHerbParams == {<<2, 0, 0>>, <<3, -1, 1>>}
FcstCarnParams == {<<1, 0, 0>>, <<2, 1, 0>>}

FcstInputs ==
  {[op |-> "forecast", data |-> GenHist(n, tp, th, tc, s0), steps |-> k] :
     n \in FcstLens, tp \in FcstPlantParams, th \in FcstHerbParams,
     tc \in FcstCarnParams, s0 \in {0, 3}, k \in 0..MaxSteps}

\* lines 296-304
ForecastBegin ==
  /\ pin.op = "forecast"
  /\ pout.op = "none"
  /\ pout' = IF Len(pin.data) < MinForecast
             THEN [op |-> "forecast_done",
                   res |-> ForecastFailure("Need at least 5 data points for forecasting")]
             ELSE [op |-> "forecast_loop", step |-> 1, forecasts |-> <<>>]
  /\ UNCHANGED <<pin, svars>>

\* lines 306-334: one iteration of the loop
ForecastStep ==
  /\ pout.op = "forecast_loop"
  /\ pout.step <= pin.steps
  /\ LET step == pout.step
         ts == pin.data
     IN \E dp \in NoisyValues(PopForecast(ts, "plants", step), step),
           dh \in NoisyValues(PopForecast(ts, "herbivores", step), step),
           dc \in NoisyValues(PopForecast(ts, "carnivores", step), step) :
          pout' = IF dp.ok /\ dh.ok /\ dc.ok
                  THEN [pout EXCEPT
                          !.step = step + 1,
                          !.forecasts = Append(@, Snap(dp.v, dh.v, dc.v,
                                                       PyAt(ts, -1).step + step))]
                  ELSE [op |-> "forecast_done", res |-> ForecastFailure("scale < 0")]
  /\ UNCHANGED <<pin, svars>>

\* lines 336-362
ForecastReturn ==
  /\ pout.op = "forecast_loop"
  /\ pout.step > pin.steps
  /\ pout' = [op |-> "forecast_done",
              res |-> ForecastSuccess(pin.data, pout.forecasts, pin.steps)]
  /\ UNCHANGED <<pin, svars>>

InitFcst ==
  /\ ServiceInit
  /\ pin \in FcstInputs
  /\ pout = NoOutput

NextFcst == ForecastBegin \/ ForecastStep \/ ForecastReturn

SpecFcst == InitFcst /\ [][NextFcst]_vars

----------------------------------------------------------------------------
(* Properties of the service *)

SameRunPair(m, sc) ==
  HasModel(m) /\ HasModel(sc) /\ m["collapse"].run = sc["collapse"].run

WholeOrNothing(m, sc) ==
  \/ ~HasModel(m) /\ ~HasModel(sc)
  \/ SameRunPair(m, sc)

\* C1: no predict_collapse_risk call scales its features with the scaler of
\* one training run and then queries the classifier of another: a reader
\* sees the whole old pair or the whole new pair.
C1_NoTornPair ==
  \A r \in Readers :
    readers[r].used.clf # 0 => readers[r].used.scaler = readers[r].used.clf

\* the artifacts fitted by the call of trainer tr are resident
ArtifactsResident(tr) ==
  \/ HasModel(models) /\ models["collapse"].run = tr.run
  \/ HasModel(scalers) /\ scalers["collapse"].run = tr.run

\* C2: when train_collapse_predictor has returned success = false, the
\* resident (classifier, scaler) pair is what it was before the call: in
\* particular neither artifact fitted by the failed call is resident.
C2_FailedTrainingKeepsModel ==
  \A t \in Trainers :
    (trainers[t].returned /\ ~trainers[t].success /\ trainers[t].run # 0) =>
      ~ArtifactsResident(trainers[t])

\* C3: no exception escapes predict_collapse_risk (nor
\* train_collapse_predictor, whose every path ends in a returned record):
\* each call returns a structured result.
C3_NoEscape ==
  /\ \A r \in Readers : ~readers[r].res.raised
  /\ \A t \in Trainers :
       trainers[t].returned => (trainers[t].success \/ trainers[t].error # "")

\* C4: on a non-empty input predict_collapse_risk returns the heuristic
\* estimator's result (model_version "heuristic") whenever no classifier is
\* resident and whenever inference fails; it returns model_version "1.0" only
\* when a classifier is resident, at least 5 snapshots are given and
\* inference succeeds.
C4_FallbackVersion ==
  \A r \in Readers :
    LET rd == readers[r]
    IN (rd.pc = "idle" /\ rd.branch # "none" /\ rd.recent # <<>>) =>
         /\ ~rd.res.raised
         /\ rd.branch \in {"no_model", "failed"} =>
              /\ rd.res.success
              /\ rd.res.model_version = "heuristic"
              /\ rd.res = Heuristic(rd.recent)
         /\ rd.res.model_version = "1.0" =>
              /\ rd.branch = "model"
              /\ Len(rd.recent) >= 5
              /\ rd.used.clf # 0

\* what C6 says of the step in which thread t runs train_collapse_predictor
\* (called directly or by the /train handler) up to the checks of lines
\* 122-128: the call has returned or is about to fit
DataSizeStep(t) ==
  LET tr == trainers'[t]
  IN (trainers[t].pc = "idle" /\ ~trainers[t].returned
        /\ tr.branch = "call" /\ (tr.returned \/ tr.pc = "fit")) =>
       /\ tr.n < 10 =>
            /\ tr.returned /\ ~tr.success
            /\ tr.error = InsufficientMsg
            /\ tr.run = 0
            /\ UNCHANGED <<models, scalers, disk, runs>>
       /\ (tr.n >= 10 /\ tr.n <= 24) =>
            /\ tr.returned /\ ~tr.success
            /\ tr.error = SmallDataMsg
            /\ tr.run = 0
            /\ UNCHANGED <<models, scalers, disk, runs>>
       /\ tr.n = 25 => ~tr.returned /\ tr.pc = "fit"

\* C6: training on fewer than 10 snapshots fails with the "need at least 10
\* data points" failure, on 10 to 24 snapshots with the "need at least 30
\* data points" failure, and in both cases nothing is fitted, installed or
\* persisted; on exactly 25 snapshots it passes both checks and goes on to
\* fitting.
C6_DataSizeChecks == [][\A t \in Trainers : DataSizeStep(t)]_vars

\* a training on 24 snapshots has failed while a pair fitted earlier is
\* resident and on disk
C6_Witness ==
  /\ \E t \in Trainers :
       /\ trainers[t].returned
       /\ trainers[t].branch = "call"
       /\ trainers[t].n = 24
       /\ trainers[t].error = SmallDataMsg
  /\ SameRunPair(models, scalers)
  /\ disk.model.state = "complete"

\* a restart installs a whole pair or nothing
LoadIsWhole == Restart => WholeOrNothing(models', scalers')

\* with a training returned successfully and none in progress, a reload
\* yields the resident pair
ReloadIsResident ==
  ( /\ \E t \in Trainers : trainers[t].returned /\ trainers[t].success
    /\ \A t \in Trainers : trainers[t].pc = "idle" ) =>
    /\ LoadedModels(disk) = models
    /\ LoadedScalers(disk) = scalers

\* C7: load_models installs a classifier and a scaler produced by the same
\* training run or installs nothing, whatever trainings, failures and
\* restarts came before; and after a training has saved its pair, a reload
\* yields the pair that is resident.
C7_StoreYieldsWholePair == [][LoadIsWhole]_vars /\ []ReloadIsResident

\* C11: every successful response of POST /predict/collapse carries
\* model_version "heuristic" and confidence 0.6, whatever the state of the
\* service (after a successful training, after a load from disk): the
\* handler passes exactly one snapshot, fewer than the 5 that classifier
\* inference requires, so the classifier is never queried for it.
C11_EndpointAlwaysHeuristic ==
  \A r \in Readers :
    LET rd == readers[r]
    IN rd.via = "endpoint" =>
         /\ Len(rd.recent) <= 1
         /\ rd.pc = "idle"
         /\ rd.used = NoUse
         /\ CollapseResponse(rd).body.success =>
              /\ CollapseResponse(rd).status = 200
              /\ CollapseResponse(rd).body.model_version = "heuristic"
              /\ CollapseResponse(rd).body.confidence = F0_6
              /\ Len(rd.recent) = 1

\* the handler has answered with a heuristic result while a two-class
\* classifier and its scaler, loaded from disk at start, are resident
C11_Witness ==
  /\ is_trained
  /\ SameRunPair(models, scalers)
  /\ models = LoadedModels(disk)
  /\ scalers = LoadedScalers(disk)
  /\ models["collapse"].classes = 2
  /\ \E r \in Readers :
       /\ readers[r].via = "endpoint"
       /\ readers[r].branch = "failed"
       /\ CollapseResponse(readers[r]).body.success
       /\ Succ(CollapseResponse(readers[r]).body.risk) = F0_9

----------------------------------------------------------------------------
(* Properties of the heuristic estimator *)

\* the five rules in evaluation order: name, weight, whether the rule is
\* triggered by the input d, and the weight in hundredths
RuleTable(d) ==
  LET last == d[Len(d)]
      low == last.plants < 10
  IN << <<"critically_low_plants", F0_4, low, 40>>,
        <<"low_plants", F0_2, ~low /\ last.plants < 30, 20>>,
        <<"critically_low_herbivores", F0_3, last.herbivores < 3, 30>>,
        <<"predator_overload", F0_2, 2 * last.carnivores > 3 * last.herbivores, 20>>,
        <<"declining_plant_trend", F0_15,
          Len(d) >= 3 /\ 3 * (-5) > last.plants - d[Len(d) - 2].plants, 15>> >>

Triggered(rule) == rule[3]

\* the sum of the triggered weights as a decimal number, in hundredths
TriggeredWeight(d) ==
  LET t == RuleTable(d)
  IN SumSeq([i \in 1..Len(t) |-> IF t[i][3] THEN t[i][4] ELSE 0])

\* the float nearest to that decimal sum clamped to 1
DecimalRisk(d) == Dec(Min2(TriggeredWeight(d), 100), 100)

\* the triggered weights added one after the other, as floats, from rule i on
RECURSIVE AddedFrom(_, _, _)
AddedFrom(t, i, acc) ==
  IF i > Len(t) THEN acc
  ELSE AddedFrom(t, i + 1, IF t[i][3] THEN FAdd(acc, t[i][2]) ELSE acc)

AccumulatedRisk(d) ==
  LET sum == AddedFrom(RuleTable(d), 1, FZero)
  IN IF FLess(F1_0, sum) THEN F1_0 ELSE sum

ExpectedFactors(d) ==
  LET t == SelectSeq(RuleTable(d), Triggered)
  IN [i \in 1..Len(t) |-> Factor(t[i][1], t[i][2])]

\* what C5 says apart from the value of risk
HeuristicShape(d, res) ==
  /\ d = <<>> => ~res.raised /\ ~res.success /\ res.error # ""
  /\ d # <<>> =>
       /\ ~res.raised /\ res.success
       /\ ~FLess(F1_0, res.risk)
       /\ res.confidence = F0_6
       /\ res.model_version = "heuristic"
       /\ res.factors = ExpectedFactors(d)

IsExample(d) ==
  Len(d) = 1 /\ d[1].plants = 8 /\ d[1].herbivores = 2 /\ d[1].carnivores = 5

\* C5 as stated: for every non-empty snapshot sequence the heuristic
\* estimator returns risk = the sum of the weights of the triggered rules
\* clamped to [0, 1], confidence 0.6 and model_version "heuristic", with
\* factors listing exactly the triggered rules in evaluation order;
\* low_plants and critically_low_plants never both fire; the single snapshot
\* {plants 8, herbivores 2, carnivores 5} has risk 0.9; an empty sequence is
\* a failure.
C5_RiskIsDecimalSum ==
  pout.op = "heuristic" =>
    /\ HeuristicShape(pin.data, pout.res)
    /\ pin.data # <<>> => pout.res.risk = DecimalRisk(pin.data)
    /\ IsExample(pin.data) => pout.res.risk = F0_9

\* C5, amended: as above, with risk = the float obtained by adding the
\* triggered weights to 0.0 one after the other in evaluation order, clamped
\* to 1.0; it is the float nearest to the decimal sum or a neighbour of it,
\* and for {plants 8, herbivores 2, carnivores 5} it is the float just below
\* 0.9 (0.8999999999999999).
C5_HeuristicArithmetic ==
  pout.op = "heuristic" =>
    /\ HeuristicShape(pin.data, pout.res)
    /\ pin.data # <<>> =>
         /\ pout.res.risk = AccumulatedRisk(pin.data)
         /\ Near(pout.res.risk, DecimalRisk(pin.data))
    /\ IsExample(pin.data) =>
         /\ pout.res.risk # F0_9
         /\ Succ(pout.res.risk) = F0_9

\* all four rules fire on a three-snapshot input and the sum, the float
\* just below 1.05, is clamped to 1.0
C5_Witness ==
  /\ pout.op = "heuristic"
  /\ Len(pin.data) = 3
  /\ Len(pout.res.factors) = 4
  /\ TriggeredWeight(pin.data) = 105
  /\ FLess(F1_0, AddedFrom(RuleTable(pin.data), 1, FZero))
  /\ pout.res.risk = F1_0

----------------------------------------------------------------------------
(* Properties of feature extraction *)

\* the 19-value recipe, for a window w of five snapshots
Recipe(w) ==
  LET cur == w[5]
      old == w[1]
      vals(key) == {w[j][key] : j \in 1..5}
      lo(key) == CHOOSE v \in vals(key) : \A u \in vals(key) : v <= u
      hi(key) == CHOOSE v \in vals(key) : \A u \in vals(key) : v >= u
      \* 25 * variance = sum over ordered pairs a < b of (w[a] - w[b])^2
      var25(key) == SumSeq([a \in 1..5 |->
                       SumSeq([b \in 1..5 |->
                          IF a < b THEN (w[a][key] - w[b][key]) * (w[a][key] - w[b][key])
                          ELSE 0])])
      floor1(v) == IF v < 1 THEN 1 ELSE v
  IN << <<cur.plants, 1>>, <<cur.herbivores, 1>>, <<cur.carnivores, 1>>,
        <<cur.plants - old.plants, 5>>,
        <<cur.herbivores - old.herbivores, 5>>,
        <<cur.carnivores - old.carnivores, 5>>,
        <<cur.plants, floor1(cur.herbivores)>>,
        <<cur.herbivores, floor1(cur.carnivores)>>,
        <<cur.carnivores, floor1(cur.herbivores)>>,
        <<cur.plants + cur.herbivores + cur.carnivores, 1>>,
        <<var25("plants"), 25>>, <<var25("herbivores"), 25>>, <<var25("carnivores"), 25>>,
        <<lo("plants"), 1>>, <<hi("plants"), 1>>,
        <<lo("herbivores"), 1>>, <<hi("herbivores"), 1>>,
        <<lo("carnivores"), 1>>, <<hi("carnivores"), 1>> >>

WindowOf(data, i) == SubSeq(data, i - Lookback + 1, i)

\* C8: for every window of exactly 5 snapshots the training path and the
\* inference path build the same 19 values in the same order (3 current
\* populations, 3 rates (last - first)/5, the three ratios with denominators
\* floored at 1, total biomass, 3 standard deviations, min/max per species),
\* and no denominator is ever zero.
C8_SameFeatures ==
  pout.op = "window" =>
    /\ pout.train = pout.infer
    /\ Len(pout.train) = NFeatures
    /\ Len(pout.infer) = NFeatures
    /\ pout.infer = Recipe(WindowOf(pin.data, pout.i))
    /\ \A f \in 1..NFeatures : pout.train[f][2] > 0 /\ pout.infer[f][2] > 0

\* a window whose newest snapshot has zero herbivores and zero carnivores,
\* reached through a longer sequence that ends with it
C8_Witness ==
  /\ pout.op = "window"
  /\ Len(pout.recent) > Lookback
  /\ pin.data[pout.i].herbivores = 0
  /\ pin.data[pout.i].carnivores = 0
  /\ pin.data[pout.i].plants > 0
  /\ pout.train[7] = <<pin.data[pout.i].plants, 1>>
  /\ pout.train[11][1] > 0

\* C9: a history of n >= 10 snapshots gives exactly n - 5 examples, one per
\* index i in 5..n-1 (0-based); example i is built from the window
\* history[i-5 .. i-1] and is labelled 1 exactly when history[i] has
\* plants < 5 or herbivores = 0 or carnivores = 0; {4, 1, 1} is labelled
\* collapse and {5, 1, 1} is not.
C9_ExamplesAndLabels ==
  (pout.op = "prepare" /\ Len(pin.data) >= 10) =>
    LET h == pin.data
        n == Len(h)
        res == pout.res
    IN /\ ~res.raised
       /\ Len(res.X) = n - 5
       /\ Len(res.y) = n - 5
       /\ \A i \in 5..(n - 1) :
            LET k == i - 4          \* position of example i in X and y
                nxt == h[i + 1]     \* history[i], 0-based
            IN /\ res.X[k] = Recipe(SubSeq(h, i - 4, i))
               /\ res.y[k] \in {0, 1}
               /\ res.y[k] = 1 <=>
                    (nxt.plants < 5 \/ nxt.herbivores = 0 \/ nxt.carnivores = 0)
               /\ (nxt.plants = 4 /\ nxt.herbivores = 1 /\ nxt.carnivores = 1)
                    => res.y[k] = 1
               /\ (nxt.plants = 5 /\ nxt.herbivores = 1 /\ nxt.carnivores = 1)
                    => res.y[k] = 0

\* a history of more than 10 snapshots with both labels, whose last snapshot
\* is {plants 5, herbivores 1, carnivores 1}, labelled 0
C9_Witness ==
  /\ pout.op = "prepare"
  /\ Len(pin.data) > 10
  /\ Len(pout.res.y) = Len(pin.data) - 5
  /\ \E k \in 1..Len(pout.res.y) : pout.res.y[k] = 1
  /\ LET last == pin.data[Len(pin.data)]
     IN last.plants = 5 /\ last.herbivores = 1 /\ last.carnivores = 1
  /\ pout.res.y[Len(pout.res.y)] = 0

----------------------------------------------------------------------------
(* Properties of the forecaster *)

NonNegInt(v) == v \in Nat

\* C10: on fewer than 5 snapshots forecast_populations returns a failure
\* without raising; on at least 5 snapshots with steps = k >= 1 it returns
\* exactly k predictions in order, the s-th with step = last observed step
\* + s, every forecast value a non-negative integer whatever noise is drawn.
C10_Forecast ==
  pout.op = "forecast_done" =>
    LET ts == pin.data
        k == pin.steps
        res == pout.res
    IN /\ ~res.raised
       /\ Len(ts) < 5 => ~res.success /\ res.error # ""
       /\ (Len(ts) >= 5 /\ k >= 1) =>
            /\ res.success
            /\ Len(res.predictions) = k
            /\ \A s \in 1..k :
                 /\ res.predictions[s].step = ts[Len(ts)].step + s
                 /\ NonNegInt(res.predictions[s].plants)
                 /\ NonNegInt(res.predictions[s].herbivores)
                 /\ NonNegInt(res.predictions[s].carnivores)

====
